---- MODULE Spec2Model ----
(***************************************************************************)
(* A model of funny_reminder_bot (src/bot.py): the module-level reminders   *)
(* dict, the asyncio timer tasks running schedule_reminder, and the         *)
(* /remindme, /cancel and waiting_for_id handlers of the dispatcher.        *)
(*                                                                         *)
(* Handlers and timer tasks are coroutines on one event loop: the code      *)
(* between two awaits runs atomically, and every await is a point where     *)
(* other handlers and timer tasks may run.  Each action below is one such   *)
(* atomic stretch.                                                          *)
(***************************************************************************)
EXTENDS Integers, Sequences, FiniteSets, TLC

VARIABLES
    reminders,  \* the dict reminders, in insertion order: <<[task_id, chat_id, text, task], ...>>
    tasks,      \* the asyncio tasks created so far, in creation order
    sent,       \* the messages the timer tasks have delivered through bot.send_photo/send_message
    state,      \* the FSM state of each requester ("IDLE" is the cleared state)
    reply,      \* the outcome of the handler that ran last: its reply, or the exception it raised
    confirmed,  \* history: the tasks whose Registry entry a confirmed cancel removed
    barred      \* history: the tasks whose identifier was cancelled before the fire time

vars == <<reminders, tasks, sent, state, reply, confirmed, barred>>

----------------------------------------------------------------------------
(* Bounds of the model *)

\* number of reminders accepted over the process lifetime
MaxTasks == 3

\* The requesters.  Each talks to the bot in a private chat, so that
\* message.chat.id and message.from_user.id coincide.
Users == {1, 2}

----------------------------------------------------------------------------
(* Values *)

\* Python's None where a tuple is expected is the empty tuple here: it does
\* not unpack into three names.
None == <<>>

\* Task texts: one of at most 8 words, one of more than 8 words.
ShortText == <<"buy", "milk">>
LongText == <<"a", "b", "c", "d", "e", "f", "g", "h", "i">>
TaskTexts == {ShortText, LongText}

\* What fetch_image_from_pexels can return: a photo with a src.original, a
\* photo without one, or None (status not 200, or no photos).
WithUrl == <<"url", "photographer", "photographer_url">>
WithoutUrl == <<"None", "photographer", "photographer_url">>
FetchResults == {WithUrl, WithoutUrl, None}

\* What get_joke can return: the completion's text, None, or the text built
\* in the except branch.
JokeText == "joke"
JokeNone == "None"
JokeError == "An error occurred"
JokeResults == {JokeText, JokeNone, JokeError}

----------------------------------------------------------------------------
(* The dict reminders *)

Keys(d) == {d[i].task_id : i \in 1..Len(d)}

HasKey(d, k) == k \in Keys(d)

Lookup(d, k) == d[CHOOSE i \in 1..Len(d) : d[i].task_id = k]

\* d[k] = v: an existing key keeps its position and gets the new value
DictSet(d, k, v) ==
    IF HasKey(d, k)
    THEN [i \in 1..Len(d) |-> IF d[i].task_id = k THEN v ELSE d[i]]
    ELSE Append(d, v)

\* Faulty variant of DictDel: removes the k-th entry instead of the entry
\* whose key is k.
DictDelByPosition(d, k) ==
    IF k \in 1..Len(d)
    THEN [i \in 1..(Len(d) - 1) |-> IF i < k THEN d[i] ELSE d[i + 1]]
    ELSE d

\* del d[k], for a key that is present
DictDel(d, k) == SelectSeq(d, LAMBDA e : e.task_id # k)

----------------------------------------------------------------------------
(* Text: a string is a sequence of characters, each named by a string.      *)
(* "sup2" is the superscript two, a character str.isdigit() accepts and     *)
(* int() rejects; " " is whitespace.                                        *)

DecimalChars == {"0", "1", "2", "3", "4", "5", "6", "7", "8", "9"}

DecimalValue(c) ==
    CASE c = "0" -> 0 [] c = "1" -> 1 [] c = "2" -> 2 [] c = "3" -> 3
      [] c = "4" -> 4 [] c = "5" -> 5 [] c = "6" -> 6 [] c = "7" -> 7
      [] c = "8" -> 8 [] c = "9" -> 9

\* the characters str.isdigit() is true of
DigitChars == DecimalChars \cup {"sup2"}

RECURSIVE LStrip(_)
LStrip(s) == IF s # <<>> /\ Head(s) = " " THEN LStrip(Tail(s)) ELSE s

RECURSIVE RStrip(_)
RStrip(s) ==
    IF s # <<>> /\ s[Len(s)] = " " THEN RStrip(SubSeq(s, 1, Len(s) - 1)) ELSE s

\* str.strip()
Strip(s) == RStrip(LStrip(s))

\* str.isdigit(): at least one character, all of them digits
IsDigit(s) == s # <<>> /\ \A i \in 1..Len(s) : s[i] \in DigitChars

\* int(s) raises ValueError unless every character is a decimal digit
IntRaises(s) == s = <<>> \/ \E i \in 1..Len(s) : s[i] \notin DecimalChars

RECURSIVE ToInt(_)
ToInt(s) ==
    IF s = <<>> THEN 0
    ELSE 10 * ToInt(SubSeq(s, 1, Len(s) - 1)) + DecimalValue(s[Len(s)])

\* The texts a requester submits while its dialog waits for an id.
DecimalChar(n) == <<"0", "1", "2", "3", "4", "5", "6", "7", "8", "9">>[n + 1]
CancelInputs ==
    {<<DecimalChar(i)>> : i \in 1..MaxTasks}
        \cup {<<"0", "1">>, <<" ", "2", " ">>, <<"9">>,
              <<>>, <<"2", "a">>, <<"sup2">>}

----------------------------------------------------------------------------
(* parse_time and the time token of /remindme *)

\* time_units, in seconds
time_units(u) == CASE u = "h" -> 3600 [] u = "m" -> 60 [] u = "s" -> 1

UnitChars == {"h", "m", "s"}

\* the length of the run of decimal digits of s that starts at position i
RECURSIVE DigitRun(_, _)
DigitRun(s, i) ==
    IF i <= Len(s) /\ s[i] \in DecimalChars THEN 1 + DigitRun(s, i + 1) ELSE 0

\* (\d+(\.\d+)?)(h|m|s) matched at position i: the position of the unit
\* character, 0 when there is no match at i.  \d+ is greedy, and giving digits
\* back never helps: the character after a shorter run is a digit.
MatchAt(s, i) ==
    LET d == DigitRun(s, i)
        f == IF i + d <= Len(s) /\ s[i + d] = "." THEN DigitRun(s, i + d + 1) ELSE 0
    IN  IF d = 0 THEN 0
        ELSE IF f > 0 /\ i + d + 1 + f <= Len(s) /\ s[i + d + 1 + f] \in UnitChars
             THEN i + d + 1 + f
        ELSE IF i + d <= Len(s) /\ s[i + d] \in UnitChars THEN i + d
        ELSE 0

\* 10^n
RECURSIVE Pow10(_)
Pow10(n) == IF n = 0 THEN 1 ELSE 10 * Pow10(n - 1)

\* the amount of the match at i whose unit is at position e, in thousandths
\* (the tokens of the model have at most three fractional digits)
AmountMilli(s, i, e) ==
    LET d == DigitRun(s, i)
        f == e - (i + d) - 1
    IN  IF f <= 0 THEN 1000 * ToInt(SubSeq(s, i, i + d - 1))
        ELSE 1000 * ToInt(SubSeq(s, i, i + d - 1))
             + ToInt(SubSeq(s, i + d + 1, e - 1)) * Pow10(3 - f)

\* time_pattern.findall from position i on: the sum of amount * unit over
\* the matches, in milliseconds, and the number of matches
RECURSIVE FindAll(_, _)
FindAll(s, i) ==
    IF i > Len(s) THEN [n |-> 0, ms |-> 0]
    ELSE LET e == MatchAt(s, i)
         IN  IF e = 0 THEN FindAll(s, i + 1)
             ELSE LET r == FindAll(s, e + 1)
                  IN  [n |-> r.n + 1,
                       ms |-> r.ms + AmountMilli(s, i, e) * time_units(s[e])]

\* parse_time: None (here -1) when nothing matches, else the sum
parse_time(message_text) ==
    LET r == FindAll(message_text, 1)
    IN  IF r.n = 0 THEN -1 ELSE r.ms

\* re.match(r"^\d{1,2}:\d{2}(?:[apAP][mM])?$", token)
IsClockToken(tok) ==
    \E h \in 1..2 :
        /\ Len(tok) \in {h + 3, h + 5}
        /\ \A i \in 1..h : tok[i] \in DecimalChars
        /\ tok[h + 1] = ":"
        /\ tok[h + 2] \in DecimalChars /\ tok[h + 3] \in DecimalChars
        /\ Len(tok) = h + 5 =>
              tok[h + 4] \in {"a", "p", "A", "P"} /\ tok[h + 5] \in {"m", "M"}

\* "am" in token.lower() or "pm" in token.lower(), for a clock token
HasMeridiem(tok) == tok[Len(tok)] \in {"m", "M"}

ClockHour(tok) == ToInt(SubSeq(tok, 1, DigitRun(tok, 1)))
ClockMinute(tok) ==
    ToInt(SubSeq(tok, DigitRun(tok, 1) + 2, DigitRun(tok, 1) + 3))

\* datetime.strptime raises ValueError: %I takes 1..12, %H 0..23, %M 0..59
StrptimeRaises(tok) ==
    \/ ClockMinute(tok) > 59
    \/ IF HasMeridiem(tok) THEN ClockHour(tok) \notin 1..12
       ELSE ClockHour(tok) > 23

\* any(unit in token for unit in time_units)
HasUnit(tok) == \E i \in 1..Len(tok) : tok[i] \in UnitChars

\* len(text.split()) > 8 skips the image lookup
ImageLookupSkipped(text) == Len(text) > 8

\* What command_remindme_handler answers before it looks anything up:
\* "ok" when the time token and the task text are accepted.
ParseOutcome(msg) ==
    IF msg.token = <<>> THEN "FORMAT"
    ELSE IF IsClockToken(msg.token)
    THEN IF StrptimeRaises(msg.token) THEN "INVALID_TIME_FORMAT"
         ELSE IF msg.text = <<>> THEN "MISSING_TASK"
         ELSE "ok"
    ELSE IF HasUnit(msg.token)
    THEN IF parse_time(msg.token) <= 0 THEN "DURATION_FORMAT"
         ELSE IF msg.text = <<>> THEN "MISSING_TASK"
         ELSE "ok"
    ELSE "FORMAT"

----------------------------------------------------------------------------
(* State *)

TaskIds == 1..Len(tasks)

Outcome(kind, id, listing) == [kind |-> kind, task_id |-> id, listing |-> listing]

\* no reply is on its way
NoReply == Outcome("NONE", 0, <<>>)

\* Nothing in the program reads a reply: the reply of the handler that just
\* ran reaches the requester before the next step is taken.
Quiet == reply = NoReply

Init ==
    /\ reminders = <<>>
    /\ tasks = <<>>
    /\ sent = {}
    /\ state = [u \in Users |-> "IDLE"]
    /\ reply = NoReply
    /\ confirmed = {}
    /\ barred = {}

----------------------------------------------------------------------------
(* /remindme: command_remindme_handler *)

\* get_image_from_text: no lookup for a text of more than 8 words, else
\* whatever fetch_image_from_pexels returns
get_image_from_text(text, fetched) ==
    IF ImageLookupSkipped(text) THEN None ELSE fetched

\* The /remindme requests of the model: who sends which message, and what
\* the image lookup and the joke lookup return for it.  The accepted ones
\* take, between them, every path through schedule_reminder; the lookups
\* are not reached for the rejected ones.
Request(u, tok, txt, fetched, joke) ==
    [from |-> u, msg |-> [token |-> tok, text |-> txt], fetched |-> fetched, joke |-> joke]

Requests ==
    {Request(1, <<"1", "0", "s">>, ShortText, WithUrl, JokeNone),
     Request(2, <<"9", ":", "0", "0">>, ShortText, WithoutUrl, JokeError),
     Request(1, <<"9", ":", "0", "0">>, LongText, None, JokeText),
     Request(2, <<"1", "0", "s">>, ShortText, None, JokeNone),
     Request(1, <<"1", "0", "s">>, <<>>, None, JokeNone),
     Request(2, <<"9", ":", "0", "0">>, <<>>, None, JokeNone),
     Request(1, <<"2", "5", ":", "0", "0">>, ShortText, None, JokeNone),
     Request(2, <<"0", "s">>, ShortText, None, JokeNone),
     Request(1, <<"2", "5", ":", "0", "0">>, <<>>, None, JokeNone),
     Request(2, <<"0", "s">>, <<>>, None, JokeNone),
     Request(1, <<"h">>, ShortText, None, JokeNone),
     Request(2, <<"x">>, ShortText, None, JokeNone),
     Request(1, <<>>, <<>>, None, JokeNone)}

\* the parse result of each message of the table, computed once
Parsed == [msg \in {r.msg : r \in Requests} |-> ParseOutcome(msg)]

\* Faulty variant of NewTaskId: the length is read before the previous
\* allocation has stored its entry.
NewTaskIdStale(d) == IF Len(d) <= 1 THEN 1 ELSE Len(d)

\* task_id = len(reminders) + 1
NewTaskId(d) == Len(d) + 1

\* The handler has no await before its final reply: it runs as one step.
\* fetched and joke are what the two lookups return for this request.
command_remindme_handler(u, msg, fetched, joke) ==
    LET outcome == Parsed[msg]
        image_info == get_image_from_text(msg.text, fetched)
        task_id == NewTaskId(reminders)
        task == Len(tasks) + 1
    IN  /\ Quiet
        /\ IF outcome # "ok"
           THEN /\ reply' = Outcome(outcome, 0, <<>>)
                /\ UNCHANGED <<reminders, tasks, sent, state, confirmed, barred>>
           ELSE /\ Len(tasks) < MaxTasks
                /\ tasks' = Append(tasks,
                       [chat_id |-> u, text |-> msg.text, task_id |-> task_id,
                        image_info |-> image_info, joke |-> joke, pc |-> "sleep"])
                /\ reminders' = DictSet(reminders, task_id,
                       [task_id |-> task_id, chat_id |-> u, text |-> msg.text,
                        task |-> task])
                /\ reply' = Outcome("REMINDER_SET", 0, <<>>)
                /\ UNCHANGED <<sent, state, confirmed, barred>>

\* requests.get raises inside fetch_image_from_pexels: the exception leaves
\* the handler before anything is registered, and nothing is replied.
command_remindme_handler_fetch_raises(u, msg) ==
    /\ Quiet
    /\ Parsed[msg] = "ok"
    /\ ~ImageLookupSkipped(msg.text)
    /\ Len(tasks) < MaxTasks
    /\ reply' = Outcome("RequestException", 0, <<>>)
    /\ UNCHANGED <<reminders, tasks, sent, state, confirmed, barred>>

\* Faulty variant of command_remindme_handler_create_task_raises: the entry
\* is stored before the task is created.
command_remindme_handler_stores_first(u, msg) ==
    /\ Quiet
    /\ Parsed[msg] = "ok"
    /\ Len(tasks) < MaxTasks
    /\ reminders' = DictSet(reminders, NewTaskId(reminders),
           [task_id |-> NewTaskId(reminders), chat_id |-> u, text |-> msg.text,
            task |-> Len(tasks) + 1])
    /\ reply' = Outcome("RuntimeError", 0, <<>>)
    /\ UNCHANGED <<tasks, sent, state, confirmed, barred>>

\* asyncio.create_task raises: the exception leaves the handler before the
\* entry is stored, and nothing is replied.
command_remindme_handler_create_task_raises(u, msg) ==
    /\ Quiet
    /\ Parsed[msg] = "ok"
    /\ Len(tasks) < MaxTasks
    /\ reply' = Outcome("RuntimeError", 0, <<>>)
    /\ UNCHANGED <<reminders, tasks, sent, state, confirmed, barred>>

----------------------------------------------------------------------------
(* The timer task: schedule_reminder *)

Message(t, kind, body) ==
    [chat_id |-> tasks[t].chat_id, kind |-> kind, task |-> t, body |-> body]

Photo(t) == Message(t, "photo", <<tasks[t].image_info[1]>>)
ReminderText(t) == Message(t, "reminder", tasks[t].text)
Joke(t) == Message(t, "joke", <<tasks[t].joke>>)

\* if joke: None is false
Truthy(joke) == joke # JokeNone

SetPc(t, pc) == tasks' = [tasks EXCEPT ![t].pc = pc]

\* del reminders[task_id] at the end of the task: KeyError when the key is gone
DelOwnKey(t) ==
    IF HasKey(reminders, tasks[t].task_id)
    THEN /\ reminders' = DictDel(reminders, tasks[t].task_id)
         /\ SetPc(t, "done")
    ELSE /\ reminders' = reminders
         /\ SetPc(t, "KeyError")

\* asyncio.sleep returns; image_info is unpacked (TypeError for None) and
\* the first send is started.
Wake(t) ==
    /\ Quiet
    /\ tasks[t].pc = "sleep"
    /\ IF Len(tasks[t].image_info) # 3 THEN SetPc(t, "TypeError")
       ELSE IF tasks[t].image_info[1] # "None" THEN SetPc(t, "send_photo")
       ELSE SetPc(t, "send_message")
    /\ UNCHANGED <<reminders, sent, state, reply, confirmed, barred>>

\* bot.send_photo returns; the send of the reminder text is started.
PhotoSent(t) ==
    /\ Quiet
    /\ tasks[t].pc = "send_photo"
    /\ sent' = sent \cup {Photo(t)}
    /\ SetPc(t, "send_message")
    /\ UNCHANGED <<reminders, state, reply, confirmed, barred>>

\* bot.send_message of the reminder text returns; the joke is sent next if
\* there is one, else the task ends with its del.
ReminderSent(t) ==
    /\ Quiet
    /\ tasks[t].pc = "send_message"
    /\ sent' = sent \cup {ReminderText(t)}
    /\ IF Truthy(tasks[t].joke)
       THEN SetPc(t, "send_joke") /\ reminders' = reminders
       ELSE DelOwnKey(t)
    /\ UNCHANGED <<state, reply, confirmed, barred>>

\* bot.send_message of the joke returns; the task ends with its del.
JokeSent(t) ==
    /\ Quiet
    /\ tasks[t].pc = "send_joke"
    /\ sent' = sent \cup {Joke(t)}
    /\ DelOwnKey(t)
    /\ UNCHANGED <<state, reply, confirmed, barred>>

\* The message a task suspended in a send has in flight.
InFlight(t) ==
    CASE tasks[t].pc = "send_photo" -> {Photo(t)}
      [] tasks[t].pc = "send_message" -> {ReminderText(t)}
      [] tasks[t].pc = "send_joke" -> {Joke(t)}
      [] OTHER -> {}

Suspended(t) == tasks[t].pc \in {"sleep", "send_photo", "send_message", "send_joke"}

\* Task.cancel(): a task suspended at an await gets CancelledError there and
\* ends; a finished task is left as it is.
CancelledTasks(t) ==
    IF Suspended(t) THEN [tasks EXCEPT ![t].pc = "cancelled"] ELSE tasks

----------------------------------------------------------------------------
(* /cancel: cancel_reminder, and the reply to it: process_cancel_reply       *)
(*                                                                         *)
(* Both handlers end with an awaited reply followed by an awaited change of *)
(* the requester's FSM state.  What runs while they are suspended there     *)
(* (timer tasks, other requesters' handlers) neither reads nor writes this  *)
(* requester's FSM state, and a requester sends its next message after the  *)
(* answer to the previous one: the handler is one step.                     *)

\* [f"{task_id}: {text}" for task_id, (_, text, _) in reminders.items()]
Listing(d) == [i \in 1..Len(d) |-> <<d[i].task_id, d[i].text>>]

\* Faulty variant of cancel_reminder: the dialog is reset when there is
\* nothing to cancel.
cancel_reminder_clears_state(u) ==
    /\ Quiet
    /\ IF reminders = <<>>
       THEN /\ reply' = Outcome("NO_ACTIVE", 0, <<>>)
            /\ state' = [state EXCEPT ![u] = "IDLE"]
       ELSE /\ reply' = Outcome("LIST", 0, Listing(reminders))
            /\ state' = [state EXCEPT ![u] = "AWAITING_ID"]
    /\ UNCHANGED <<reminders, tasks, sent, confirmed, barred>>

\* Faulty variant of cancel_reminder: the dialog state is set before the
\* Registry is looked at.
cancel_reminder_sets_state_first(u) ==
    /\ Quiet
    /\ state' = [state EXCEPT ![u] = "AWAITING_ID"]
    /\ reply' = IF reminders = <<>>
                THEN Outcome("NO_ACTIVE", 0, <<>>)
                ELSE Outcome("LIST", 0, Listing(reminders))
    /\ UNCHANGED <<reminders, tasks, sent, confirmed, barred>>

\* Command("cancel") is registered before the waiting_for_id handler and has
\* no state filter: it takes a /cancel in either dialog state.
cancel_reminder(u) ==
    /\ Quiet
    /\ IF reminders = <<>>
       THEN /\ reply' = Outcome("NO_ACTIVE", 0, <<>>)
            /\ state' = state
       ELSE /\ reply' = Outcome("LIST", 0, Listing(reminders))
            /\ state' = [state EXCEPT ![u] = "AWAITING_ID"]
    /\ UNCHANGED <<reminders, tasks, sent, confirmed, barred>>

\* user_input = message.text.strip(), user_input.isdigit() and int(user_input)
\* for each submitted text, computed once
Read ==
    [text \in CancelInputs |->
        LET user_input == Strip(text)
        IN  [user_input |-> user_input,
             isdigit |-> IsDigit(user_input),
             raises |-> IntRaises(user_input),
             task_id |-> IF IntRaises(user_input) THEN 0 ELSE ToInt(user_input)]]

\* process_cancel_reply, for a message that is not one of the commands
\* registered before it.  A send that is in flight when its task is cancelled
\* has reached the chat or has not.
process_cancel_reply(u, text) ==
    LET user_input == Read[text].user_input
        task_id == Read[text].task_id
    IN  /\ Quiet
        /\ state[u] = "AWAITING_ID"
        /\ IF ~Read[text].isdigit
           THEN /\ reply' = Outcome("INVALID_INPUT", 0, <<>>)
                /\ UNCHANGED <<reminders, tasks, sent, state, confirmed, barred>>
           ELSE IF Read[text].raises
           THEN /\ reply' = Outcome("ValueError", 0, <<>>)
                /\ UNCHANGED <<reminders, tasks, sent, state, confirmed, barred>>
           ELSE IF HasKey(reminders, task_id)
           THEN LET t == Lookup(reminders, task_id).task
                IN  /\ tasks' = CancelledTasks(t)
                    /\ \E delivered \in SUBSET InFlight(t) : sent' = sent \cup delivered
                    /\ reminders' = DictDel(reminders, task_id)
                    /\ reply' = Outcome("CANCELLED", task_id, <<>>)
                    /\ state' = [state EXCEPT ![u] = "IDLE"]
                    /\ confirmed' = confirmed \cup {t}
                    /\ barred' = IF tasks[t].pc = "sleep"
                                 THEN barred \cup {s \in TaskIds : tasks[s].task_id = task_id}
                                 ELSE barred
           ELSE /\ reply' = Outcome("INVALID_ID", 0, <<>>)
                /\ UNCHANGED <<reminders, tasks, sent, state, confirmed, barred>>

----------------------------------------------------------------------------
(* The program *)

\* The reply of the handler that just ran reaches the requester.
Deliver ==
    /\ reply # NoReply
    /\ reply' = NoReply
    /\ UNCHANGED <<reminders, tasks, sent, state, confirmed, barred>>

Next ==
    \/ \E r \in Requests : command_remindme_handler(r.from, r.msg, r.fetched, r.joke)
    \/ \E r \in Requests : command_remindme_handler_fetch_raises(r.from, r.msg)
    \/ \E r \in Requests : command_remindme_handler_create_task_raises(r.from, r.msg)
    \/ \E t \in TaskIds : Wake(t)
    \/ \E t \in TaskIds : PhotoSent(t)
    \/ \E t \in TaskIds : ReminderSent(t)
    \/ \E t \in TaskIds : JokeSent(t)
    \/ \E u \in Users : cancel_reminder(u)
    \/ \E u \in Users, text \in CancelInputs : process_cancel_reply(u, text)
    \/ Deliver

Spec == Init /\ [][Next]_vars

----------------------------------------------------------------------------
(* Properties *)

\* the messages task t has delivered
SentBy(t) == {m \in sent : m.task = t}

\* the task has ended without having been cancelled
EndedUncancelled(t) == tasks[t].pc \in {"done", "KeyError", "TypeError"}

\* the Registry entries that hold task t
EntriesOf(t) == {i \in 1..Len(reminders) : reminders[i].task = t}

\* C1: a reminder is notified or its cancel is confirmed, never both: once a
\* notification message for it has been sent, its cancel is not confirmed,
\* and once its cancel has been confirmed, no notification message for it
\* is sent.
C1_NotificationXorCancel ==
    [][\A t \in TaskIds :
          /\ SentBy(t) # {} /\ t \notin confirmed => t \notin confirmed'
          /\ t \in confirmed => {m \in sent' : m.task = t} = SentBy(t)]_vars

\* C2 (its finite form): a timer task that has ended without its reminder
\* having been cancelled has delivered the reminder notification to its chat
\* and is no longer in the Registry.
C2_EndedTaskHasNotified ==
    \A t \in TaskIds :
        EndedUncancelled(t) /\ t \notin confirmed =>
            /\ ReminderText(t) \in sent
            /\ EntriesOf(t) = {}

\* C3: once a cancel of identifier X has been confirmed before the fire time
\* of the reminder registered under X, no notification message is sent any
\* more for a reminder that had been scheduled under X before that cancel.
C3_NoNotificationAfterCancel ==
    [][\A t \in barred : {m \in sent' : m.task = t} = SentBy(t)]_vars

\* C4: the identifiers issued by successive schedule operations are strictly
\* increasing (and so never repeat).
C4_IdsStrictlyIncreasing ==
    \A s, t \in TaskIds : s < t => tasks[s].task_id < tasks[t].task_id

\* C5: the identifiers in the Registry are exactly those of the accepted
\* reminders that have neither fired nor been cancelled; no entry remains for
\* a reminder that has fired or been cancelled, and every reminder whose timer
\* is still pending has its own entry, under its identifier.
Fired(t) == tasks[t].pc \in {"done", "KeyError"}
C5_RegistryIsTheLiveSet ==
    /\ Keys(reminders) =
          {tasks[t].task_id : t \in {s \in TaskIds : ~Fired(s) /\ s \notin confirmed}}
    /\ \A i \in 1..Len(reminders) :
          ~Fired(reminders[i].task) /\ reminders[i].task \notin confirmed
    /\ \A t \in TaskIds :
          tasks[t].pc = "sleep" =>
              /\ HasKey(reminders, tasks[t].task_id)
              /\ Lookup(reminders, tasks[t].task_id).task = t

\* C6: a firing task that reaches its Registry removal finishes without an
\* error, also when the entry for its identifier is already gone.
C6_RemovalNeverFails ==
    \A t \in TaskIds : tasks[t].pc # "KeyError"

\* C7: with no removal so far, the N reminders accepted so far are N Registry
\* entries under the identifiers 1..N, each holding its own task; and a
\* listing has at most N lines and no identifier twice.
NoRemoval == confirmed = {} /\ \A t \in TaskIds : ~Fired(t)
C7_AllocationAtomic ==
    /\ NoRemoval =>
          /\ Len(reminders) = Len(tasks)
          /\ \A t \in TaskIds : tasks[t].task_id = t
          /\ \A t \in TaskIds : HasKey(reminders, t) /\ Lookup(reminders, t).task = t
    /\ reply.kind = "LIST" =>
          /\ Len(reply.listing) <= Len(tasks)
          /\ \A i, j \in 1..Len(reply.listing) :
                i # j => reply.listing[i][1] # reply.listing[j][1]

\* MaxTasks reminders accepted, none removed, and a listing of all of them
C7_Witness ==
    /\ NoRemoval
    /\ Len(tasks) = MaxTasks
    /\ reply.kind = "LIST" /\ Len(reply.listing) = MaxTasks

\* s is composed solely of decimal digits
AllDecimal(s) == s # <<>> /\ \A i \in 1..Len(s) : s[i] \in DecimalChars

\* the submissions composed solely of decimal digits, and the number of each
DecimalInputs == {text \in CancelInputs : AllDecimal(Strip(text))}
InputId == [text \in DecimalInputs |-> ToInt(Strip(text))]

Unchanged == UNCHANGED <<reminders, tasks, sent, state, confirmed, barred>>

\* C8: in AWAITING_ID an input not composed solely of decimal digits gets the
\* invalid-input error and a numeric identifier that is not in the Registry
\* gets the invalid-ID error; the dialog stays in AWAITING_ID, the Registry
\* is unchanged and no timer is cancelled.
C8_InvalidSubmissions ==
    [][\A u \in Users, text \in CancelInputs :
          process_cancel_reply(u, text) =>
              /\ ~AllDecimal(Strip(text)) =>
                    reply'.kind = "INVALID_INPUT" /\ Unchanged
              /\ AllDecimal(Strip(text)) /\ ~HasKey(reminders, ToInt(Strip(text))) =>
                    reply'.kind = "INVALID_ID" /\ Unchanged]_vars

\* the listing has one line per Registry entry, with its identifier and text
ListsAll(listing, d) ==
    /\ Len(listing) = Len(d)
    /\ {listing[i] : i \in 1..Len(listing)} = {<<d[i].task_id, d[i].text>> : i \in 1..Len(d)}

C10_CancelLive ==
    [][\A u \in Users, text \in DecimalInputs :
          LET id == InputId[text] IN
          state[u] = "AWAITING_ID" /\ HasKey(reminders, id) /\ process_cancel_reply(u, text) =>
              LET t == Lookup(reminders, id).task IN
              /\ tasks'[t].pc \notin {"sleep", "send_photo", "send_message", "send_joke"}
              /\ Suspended(t) => tasks'[t].pc = "cancelled"
              /\ \A s \in TaskIds \ {t} : tasks'[s] = tasks[s]
              /\ Keys(reminders') = Keys(reminders) \ {id}
              /\ \A k \in Keys(reminders') : Lookup(reminders', k) = Lookup(reminders, k)
              /\ reply' = Outcome("CANCELLED", id, <<>>)
              /\ state' = [state EXCEPT ![u] = "IDLE"]]_vars

\* a cancellation was confirmed, its timer is cancelled, and another entry
\* is still in the Registry
C10_Witness ==
    /\ reply.kind = "CANCELLED"
    /\ \E t \in confirmed : tasks[t].pc = "cancelled" /\ tasks[t].task_id = reply.task_id
    /\ reminders # <<>>
    /\ \E u \in Users : state[u] = "IDLE"

\* the handler's step for the request r
Handles(r) == command_remindme_handler(r.from, r.msg, r.fetched, r.joke)

\* the requests that give a time token and nothing after it
NoTextRequests == {r \in Requests : r.msg.token # <<>> /\ r.msg.text = <<>>}

\* no Registry entry has an empty task text
NoEmptyText(d) == \A i \in 1..Len(d) : d[i].text # <<>>

\* C12: a schedule request with nothing after the time token gets the
\* missing-task-text error whatever the time token is, and no Registry entry
\* ever has an empty task text.
C12_EmptyTextIsMissingTask ==
    [][/\ \A r \in NoTextRequests : Handles(r) => reply'.kind = "MISSING_TASK"
       /\ NoEmptyText(reminders')]_vars

\* the error messages of command_remindme_handler
ErrorReplies == {"FORMAT", "INVALID_TIME_FORMAT", "MISSING_TASK", "DURATION_FORMAT"}

\* every Registry entry holds a timer task
EntriesHoldTasks(d, ts) == \A i \in 1..Len(d) : d[i].task \in 1..Len(ts)

\* C13 as stated: a schedule request that fails by a time-parse error, by a
\* missing task text or by a failure to create the timer task is answered
\* with an error message and changes nothing, and no Registry entry is
\* without a timer.
C13_AsStated ==
    [][/\ \A r \in Requests :
             \/ reply'.kind # "REMINDER_SET" /\ Handles(r)
             \/ command_remindme_handler_create_task_raises(r.from, r.msg)
             => reply'.kind \in ErrorReplies /\ Unchanged
       /\ EntriesHoldTasks(reminders', tasks')]_vars

\* C13 (amended): a schedule request that fails by a time-parse error or by
\* a missing task text is answered with an error message; a failure to create
\* the timer task leaves the handler as an exception and nothing is answered
\* to the requester.  Either way the Registry, the timers and the dialog
\* states are unchanged, and no Registry entry is without a timer.
C13_FailedSchedule ==
    [][/\ \A r \in Requests :
             /\ reply'.kind # "REMINDER_SET" /\ Handles(r) =>
                   reply'.kind \in ErrorReplies /\ Unchanged
             /\ command_remindme_handler_create_task_raises(r.from, r.msg) =>
                   reply'.kind = "RuntimeError" /\ Unchanged
       /\ EntriesHoldTasks(reminders', tasks')]_vars

\* the creation of a timer task failed while reminders are registered and a
\* dialog is awaiting an identifier
C13_Witness ==
    /\ reply.kind = "RuntimeError"
    /\ reminders # <<>> /\ EntriesHoldTasks(reminders, tasks)
    /\ \E u \in Users : state[u] = "AWAITING_ID"

\* C14: a reminder whose joke lookup failed is scheduled, and at fire time
\* neither a joke nor an error text in its place is sent to the chat.
C14_FailedJokeSendsNothing ==
    \A t \in TaskIds :
        tasks[t].joke = JokeError => \A m \in SentBy(t) : m.kind # "joke"

\* a valid time token (a clock time that strptime parses, or a duration with
\* a positive sum) followed by a task text
TokenAndTextValid(msg) ==
    /\ msg.text # <<>>
    /\ IF IsClockToken(msg.token) THEN ~StrptimeRaises(msg.token)
       ELSE HasUnit(msg.token) /\ parse_time(msg.token) > 0

\* C15: whatever the image lookup and the joke lookup do, a schedule request
\* with a valid time token and a non-empty task text registers the reminder,
\* starts its timer and is confirmed to the requester.
C15_EnrichmentNeverFails ==
    [][\A r \in Requests :
          /\ TokenAndTextValid(r.msg)
          /\ \/ Handles(r)
             \/ command_remindme_handler_fetch_raises(r.from, r.msg)
          => /\ reply'.kind = "REMINDER_SET"
             /\ Len(tasks') = Len(tasks) + 1
             /\ tasks'[Len(tasks')].pc = "sleep"
             /\ \E i \in 1..Len(reminders') : reminders'[i].task = Len(tasks')]_vars

\* the time token is a duration whose matched terms sum to zero
ZeroDuration(tok) == ~IsClockToken(tok) /\ HasUnit(tok) /\ parse_time(tok) = 0

\* C16: a duration token whose terms sum to zero seconds, followed by a task
\* text, is accepted and scheduled, not answered with a time-format error.
C16_ZeroDurationAccepted ==
    [][\A r \in Requests :
          ZeroDuration(r.msg.token) /\ r.msg.text # <<>> /\ Handles(r) =>
              /\ reply'.kind = "REMINDER_SET"
              /\ Len(tasks') = Len(tasks) + 1]_vars

\* C17: a successful schedule adds exactly one key to the Registry and leaves
\* every entry that was there unchanged, so every pending timer task has a
\* Registry entry of its own.
C17_ScheduleKeepsEntries ==
    [][\A r \in Requests :
          Handles(r) /\ reply'.kind = "REMINDER_SET" =>
              /\ Cardinality(Keys(reminders')) = Cardinality(Keys(reminders)) + 1
              /\ \A k \in Keys(reminders) :
                    HasKey(reminders', k) /\ Lookup(reminders', k) = Lookup(reminders, k)
              /\ \A t \in 1..Len(tasks') :
                    tasks'[t].pc = "sleep" => \E i \in 1..Len(reminders') : reminders'[i].task = t]_vars

C19_CrossChatCancel ==
    [][/\ \A u \in Users :
             cancel_reminder(u) /\ reminders # <<>> => ListsAll(reply'.listing, reminders)
       /\ \A u \in Users, text \in DecimalInputs :
             /\ state[u] = "AWAITING_ID"
             /\ HasKey(reminders, InputId[text])
             /\ tasks[Lookup(reminders, InputId[text]).task].chat_id # u
             /\ process_cancel_reply(u, text)
             => /\ reply'.kind = "CANCELLED"
                /\ \A m \in sent' \ sent : m.task # Lookup(reminders, InputId[text]).task
       /\ \A t \in confirmed : {m \in sent' : m.task = t} = SentBy(t)
       /\ \A m \in sent' : m.chat_id = tasks'[m.task].chat_id]_vars

----------------------------------------------------------------------------
(* Clock-time requests, with the wall clock made explicit.  Times are in    *)
(* seconds from the midnight that starts the day of the request; a clock    *)
(* token has no seconds, datetime.now() has.                                *)

\* timedelta(days=1), in seconds
DaySeconds == 86400

\* datetime.strptime(token, "%I:%M%p" or "%H:%M").time(): 12 of %I is hour 0,
\* and pm adds twelve hours
TimeOfDay(tok) ==
    LET hour == IF HasMeridiem(tok)
                THEN (ClockHour(tok) % 12)
                     + (IF tok[Len(tok) - 1] \in {"p", "P"} THEN 12 ELSE 0)
                ELSE ClockHour(tok)
    IN  hour * 3600 + ClockMinute(tok) * 60

\* scheduled_time = datetime.combine(now.date(), scheduled_time_t), and a day
\* more if scheduled_time < now
ScheduledTime(now, tok) ==
    IF TimeOfDay(tok) < now THEN TimeOfDay(tok) + DaySeconds ELSE TimeOfDay(tok)

ClockTokens ==
    {<<"9", ":", "0", "0">>, <<"0", ":", "0", "0">>, <<"2", "3", ":", "5", "9">>,
     <<"1", "2", ":", "0", "0", "a", "m">>, <<"1", "2", ":", "0", "0", "p", "m">>,
     <<"9", ":", "0", "0", "P", "M">>, <<"2", "5", ":", "0", "0">>}

\* what datetime.now() returns in the handler: the times of day of the
\* tokens, a second before and a second after them, and the ends of the day
Nows ==
    LET near == {TimeOfDay(tok) + d :
                    tok \in {k \in ClockTokens : ~StrptimeRaises(k)}, d \in {-1, 0, 1}}
    IN  {t \in near \cup {0, DaySeconds - 1} : t \in 0..(DaySeconds - 1)}

\* command_remindme_handler for a clock token, read at the time now: the
\* task is created with the scheduled_time it was given
command_remindme_handler_clock(u, now, tok) ==
    LET msg == [token |-> tok, text |-> ShortText]
        task_id == NewTaskId(reminders)
        task == Len(tasks) + 1
    IN  /\ Quiet
        /\ IsClockToken(tok)
        /\ IF ParseOutcome(msg) # "ok"
           THEN /\ reply' = Outcome(ParseOutcome(msg), 0, <<>>)
                /\ UNCHANGED <<reminders, tasks, sent, state, confirmed, barred>>
           ELSE /\ Len(tasks) < MaxTasks
                /\ tasks' = Append(tasks,
                       [chat_id |-> u, text |-> msg.text, task_id |-> task_id,
                        image_info |-> WithoutUrl, joke |-> JokeNone, pc |-> "sleep",
                        scheduled_time |-> ScheduledTime(now, tok)])
                /\ reminders' = DictSet(reminders, task_id,
                       [task_id |-> task_id, chat_id |-> u, text |-> msg.text,
                        task |-> task])
                /\ reply' = Outcome("REMINDER_SET", 0, <<>>)
                /\ UNCHANGED <<sent, state, confirmed, barred>>

ClockNext ==
    \/ \E u \in Users, now \in Nows, tok \in ClockTokens :
          command_remindme_handler_clock(u, now, tok)
    \/ Deliver

ClockSpec == Init /\ [][ClockNext]_vars

\* C11: a clock time that is not strictly after now is scheduled a day later,
\* a clock time strictly after now is scheduled today; every scheduled time is
\* strictly after now and at most one day ahead.
C11_ClockResolution ==
    [][\A u \in Users, now \in Nows, tok \in ClockTokens :
          command_remindme_handler_clock(u, now, tok) /\ reply'.kind = "REMINDER_SET" =>
              LET scheduled_time == tasks'[Len(tasks')].scheduled_time IN
              /\ TimeOfDay(tok) <= now => scheduled_time = TimeOfDay(tok) + DaySeconds
              /\ TimeOfDay(tok) > now => scheduled_time = TimeOfDay(tok)
              /\ scheduled_time > now
              /\ scheduled_time <= now + DaySeconds]_vars

====
